---- MODULE Spec2Model ----
(***************************************************************************)
(* A model of BrocadeFastironDriver                                        *)
(* (src/napalm_brocade_fastiron/brocade_fastiron.py).                      *)
(*                                                                         *)
(* The driver is single-session and synchronous, so every public method   *)
(* is one atomic action.  The netmiko session object is the environment:  *)
(* each text it returns is drawn from a small set.  Texts are modelled at *)
(* the level the code inspects them: a text is a sequence of words (what  *)
(* str.split() yields), "x in text" is a search for consecutive words.    *)
(***************************************************************************)
EXTENDS Integers, Sequences, FiniteSets, TLC

\* ------------------------------------------------------------------ bounds
MaxCmds == 2
MaxVariants == 2
MaxLines == 2
MaxText == 3
MinVersion == 6
MaxVersion == 9
MaxRows == 2
MaxCfgLines == 3

VARIABLES
    device,       \* self.device: "None", "connected", "disconnected"
    os_version,   \* self._os_version (NoVersion for None)
    merge_cfg,    \* self._merge_cfg
    op,           \* the method called last
    arg,          \* its arguments
    sent,         \* the calls it made on the session object, in order
    raised,       \* the exception it raised, "none" when it returned
    err_arg,      \* the command named in the exception's message
    ret           \* the value it returned

vars == <<device, os_version, merge_cfg, op, arg, sent, raised, err_arg, ret>>

\* ------------------------------------------------------------- the session
NoVersion == -1
NoCfg == [isNone |-> TRUE, lines |-> <<>>]
Cfg(ls) == [isNone |-> FALSE, lines |-> ls]

\* One call on the netmiko session object and the text it returned.
Call(kind, cmd, cfg, reply) == [kind |-> kind, cmd |-> cmd, cfg |-> cfg, reply |-> reply]
Send(cmd, reply) == Call("send_command", cmd, NoCfg, reply)

Commands == {"show a", "show b"}
Outputs == { <<"ok">>, <<"up">>, <<"Invalid", "input">>, <<"input", "Invalid">> }

\* 'Invalid input' in output
HasInvalidInput(output) ==
    \E i \in 1..(Len(output) - 1) : output[i] = "Invalid" /\ output[i + 1] = "input"

\* What a use of self.device raises when there is no usable session:
\* None has no attributes; a closed channel cannot be written.
DeviceError == IF device = "None" THEN "AttributeError" ELSE "SocketError"

SeqsUpTo(S, n) == UNION { [1..k -> S] : k \in 0..n }

\* _send_command(command) with a list: the for loop from variant i on.
\* bound is whether the local `output` has been assigned.
RECURSIVE send_command_from(_, _, _)
send_command_from(command, replies, i) ==
    IF i > Len(command)
    THEN [sent |-> <<>>, bound |-> FALSE, output |-> <<>>]
    ELSE LET output == replies[i]
             call == Send(command[i], output)
         IN IF ~HasInvalidInput(output)
            THEN [sent |-> <<call>>, bound |-> TRUE, output |-> output]
            ELSE LET rest == send_command_from(command, replies, i + 1)
                 IN [sent |-> <<call>> \o rest.sent, bound |-> TRUE,
                     output |-> IF rest.bound THEN rest.output ELSE output]

\* The same loop without the break.
RECURSIVE send_command_from_nobreak(_, _, _)
send_command_from_nobreak(command, replies, i) ==
    IF i > Len(command)
    THEN [sent |-> <<>>, bound |-> FALSE, output |-> <<>>]
    ELSE LET output == replies[i]
             call == Send(command[i], output)
             rest == send_command_from_nobreak(command, replies, i + 1)
         IN [sent |-> <<call>> \o rest.sent, bound |-> TRUE,
             output |-> IF rest.bound THEN rest.output ELSE output]

send_command_list_nobreak(command, replies) ==
    LET r == send_command_from_nobreak(command, replies, 1)
    IN [sent |-> r.sent, output |-> r.output,
        raised |-> IF r.bound THEN "none" ELSE "UnboundLocalError"]

\* _send_command(command), isinstance(command, list)
send_command_list(command, replies) ==
    LET r == send_command_from(command, replies, 1)
    IN [sent |-> r.sent, output |-> r.output,
        raised |-> IF r.bound THEN "none" ELSE "UnboundLocalError"]

\* ----------------------------------------------------------- version probe
\* The probe's output is a sequence of lines, a line a sequence of
\* whitespace-separated tokens, a token a sequence of '.'-separated parts.
\* A part is a run of digits (isnum, with its value) or anything else.
Num(n) == [isnum |-> TRUE, n |-> n]
NaN == [isnum |-> FALSE, n |-> 0]
Word == <<NaN>>

VersionTokens == { <<Num(v), Num(0), NaN>> : v \in MinVersion..MaxVersion } \cup { Word }
ProbeLines ==
    { <<>>, <<Word, Word>> }
    \cup { <<Word, Word, t>> : t \in VersionTokens }
    \cup { <<Word, Word, t, Word>> : t \in VersionTokens }
ProbeOutputs == { <<>> } \cup { <<l>> : l \in ProbeLines } \cup { <<l, <<Word>>>> : l \in ProbeLines }

\* int(output.splitlines()[0].split()[2].split('.')[0])
parse_version(output) ==
    IF Len(output) = 0 \/ Len(output[1]) < 3
    THEN [raised |-> "IndexError", version |-> NoVersion]
    ELSE LET part == output[1][3][1]
         IN IF ~part.isnum
            THEN [raised |-> "ValueError", version |-> NoVersion]
            ELSE [raised |-> "none", version |-> part.n]

VersionCmd == "show version | include SW: Version"

\* open(): ConnectHandler(...), enable(), _get_os_version()
Open ==
    \E connected \in BOOLEAN :
    \E output \in ProbeOutputs :
        /\ op' = "open"
        /\ arg' = <<>>
        /\ err_arg' = ""
        /\ ret' = <<>>
        /\ UNCHANGED merge_cfg
        /\ IF ~connected
           THEN /\ raised' = "NetMikoException"
                /\ sent' = <<>>
                /\ UNCHANGED <<device, os_version>>
           ELSE LET v == parse_version(output)
                IN /\ device' = "connected"
                   /\ sent' = << Call("ConnectHandler", "", NoCfg, <<>>),
                                 Call("enable", "", NoCfg, <<>>),
                                 Send(VersionCmd, output) >>
                   /\ raised' = v.raised
                   /\ os_version' = IF v.raised = "none" THEN v.version ELSE os_version

\* close(): self.device.disconnect()
Close ==
    /\ op' = "close"
    /\ arg' = <<>>
    /\ err_arg' = ""
    /\ ret' = <<>>
    /\ UNCHANGED <<os_version, merge_cfg>>
    /\ IF device = "None"
       THEN /\ raised' = "AttributeError"
            /\ sent' = <<>>
            /\ UNCHANGED device
       ELSE /\ raised' = "none"
            /\ sent' = << Call("disconnect", "", NoCfg, <<>>) >>
            /\ device' = "disconnected"

\* ---------------------------------------------------------------------- cli
EmptyMap == [c \in {} |-> <<>>]

\* cli(commands): the for loop from command i on, cli_output built so far.
\* This variant stores the output without looking for the error marker.
RECURSIVE cli_from_lenient(_, _, _, _)
cli_from_lenient(commands, replies, i, cli_output) ==
    IF i > Len(commands)
    THEN [sent |-> <<>>, raised |-> "none", err_arg |-> "", ret |-> cli_output]
    ELSE LET output == replies[i]
             rest == cli_from_lenient(commands, replies, i + 1,
                                      (commands[i] :> output) @@ cli_output)
         IN [rest EXCEPT !.sent = <<Send(commands[i], output)>> \o @]

\* cli(commands): the for loop from command i on, cli_output built so far.
RECURSIVE cli_from(_, _, _, _)
cli_from(commands, replies, i, cli_output) ==
    IF i > Len(commands)
    THEN [sent |-> <<>>, raised |-> "none", err_arg |-> "", ret |-> cli_output]
    ELSE LET output == replies[i]
             call == Send(commands[i], output)
         IN IF HasInvalidInput(output)
            THEN [sent |-> <<call>>, raised |-> "ValueError",
                  err_arg |-> commands[i], ret |-> EmptyMap]
            ELSE LET rest == cli_from(commands, replies, i + 1,
                                      (commands[i] :> output) @@ cli_output)
                 IN [rest EXCEPT !.sent = <<call>> \o @]

\* cli(commands); isList is type(commands) is list
Cli ==
    \E isList \in BOOLEAN :
    \E commands \in SeqsUpTo(Commands, MaxCmds) :
    \E replies \in [1..Len(commands) -> Outputs] :
        /\ op' = "cli"
        /\ arg' = [isList |-> isList, commands |-> commands]
        /\ UNCHANGED <<device, os_version, merge_cfg>>
        /\ IF ~isList
           THEN /\ raised' = "TypeError"
                /\ err_arg' = ""
                /\ sent' = <<>>
                /\ ret' = EmptyMap
           ELSE IF device # "connected" /\ commands # <<>>
           THEN /\ raised' = DeviceError
                /\ err_arg' = ""
                /\ sent' = <<>>
                /\ ret' = EmptyMap
           ELSE LET r == cli_from(commands, replies, 1, EmptyMap)
                IN /\ raised' = r.raised
                   /\ err_arg' = r.err_arg
                   /\ sent' = r.sent
                   /\ ret' = r.ret

\* ------------------------------------------------------ candidate and commit
\* A configuration line is a sequence of characters.
Whitespace == {" ", "\n"}
Lines == { <<>>, <<" ">>, <<"a">>, <<" ", "a", " ">>, <<"a", " ", "b">> }
LineLists == SeqsUpTo(Lines, MaxLines)
Texts == SeqsUpTo({"a", " ", "\n"}, MaxText)
\* A file iterates as its lines, each with its line end.
FileLists == { [i \in 1..Len(ls) |-> ls[i] \o <<"\n">>] : ls \in LineLists }

RECURSIVE lstrip(_)
lstrip(l) == IF l # <<>> /\ Head(l) \in Whitespace THEN lstrip(Tail(l)) ELSE l

RECURSIVE rstrip(_)
rstrip(l) ==
    IF l # <<>> /\ l[Len(l)] \in Whitespace THEN rstrip(SubSeq(l, 1, Len(l) - 1)) ELSE l

\* str.strip()
strip(l) == rstrip(lstrip(l))

\* str.splitlines()
RECURSIVE splitlines(_)
splitlines(s) ==
    IF s = <<>> THEN <<>>
    ELSE IF \E i \in 1..Len(s) : s[i] = "\n"
    THEN LET i == CHOOSE k \in 1..Len(s) : s[k] = "\n" /\ \A j \in 1..(k - 1) : s[j] # "\n"
         IN <<SubSeq(s, 1, i - 1)>> \o splitlines(SubSeq(s, i + 1, Len(s)))
    ELSE <<s>>

Truthy(l) == l # <<>>

\* filter(None, (l.strip() for l in lines)), a list under Python 2
stripped_lines(lines) == SelectSeq([i \in 1..Len(lines) |-> strip(lines[i])], Truthy)

NoFile == [readable |-> FALSE, lines |-> <<>>]
Files == { NoFile } \cup { [readable |-> TRUE, lines |-> ls] : ls \in FileLists }
Configs ==
    { [kind |-> "None", val |-> <<>>] }
    \cup { [kind |-> "list", val |-> ls] : ls \in LineLists }
    \cup { [kind |-> "str", val |-> t] : t \in Texts }

\* The outcome of load_merge_candidate: source is the sequence of lines the
\* candidate was built from (the file's lines, config, config.splitlines()).
Staged(source) == [raised |-> "none", merge_cfg |-> Cfg(stripped_lines(source)), source |-> source]
NotStaged(exc, cur) == [raised |-> exc, merge_cfg |-> cur, source |-> <<>>]

\* load_merge_candidate without its first two lines.
load_merge_candidate_unguarded(cur, filename, file, config) ==
    LET f == IF filename
             THEN IF file.readable THEN Staged(file.lines) ELSE NotStaged("IOError", cur)
             ELSE NotStaged("none", cur)
    IN IF f.raised # "none" THEN f
       ELSE IF ~Truthy(config.val) THEN f
       ELSE IF config.kind = "list" THEN Staged(config.val)
       ELSE Staged(splitlines(config.val))

\* load_merge_candidate(filename, config); filename is whether a name is given
load_merge_candidate(cur, filename, file, config) ==
    IF filename /\ Truthy(config.val)
    THEN NotStaged("ValueError", cur)
    ELSE LET f == IF filename
                  THEN IF file.readable THEN Staged(file.lines) ELSE NotStaged("IOError", cur)
                  ELSE NotStaged("none", cur)
         IN IF f.raised # "none" THEN f
            ELSE IF ~Truthy(config.val) THEN f
            ELSE IF config.kind = "list" THEN Staged(config.val)
            ELSE Staged(splitlines(config.val))

LoadMergeCandidate ==
    \E filename \in BOOLEAN :
    \E config \in Configs :
    \* the file is opened only when filename alone is given
    \E file \in IF filename /\ ~Truthy(config.val) THEN Files ELSE { NoFile } :
        LET r == load_merge_candidate(merge_cfg, filename, file, config)
        IN /\ op' = "load_merge_candidate"
           /\ arg' = [filename |-> filename, config |-> Truthy(config.val), source |-> r.source]
           /\ raised' = r.raised
           /\ merge_cfg' = r.merge_cfg
           /\ sent' = <<>>
           /\ err_arg' = ""
           /\ ret' = <<>>
           /\ UNCHANGED <<device, os_version>>

WriteMemory == "write memory"

\* commit_config with the two device calls in the other order.
commit_config_calls_persist_first(cfg, set_reply, write_reply) ==
    << Send(WriteMemory, write_reply), Call("send_config_set", "", cfg, set_reply) >>

\* The calls commit_config makes on an open session.
commit_config_calls(cfg, set_reply, write_reply) ==
    << Call("send_config_set", "", cfg, set_reply), Send(WriteMemory, write_reply) >>

\* commit_config()
CommitConfig ==
    \* netmiko's send_config_set returns '' for None without writing
    \E set_reply \in IF merge_cfg.isNone THEN { <<>> } ELSE Outputs :
    \E write_reply \in Outputs :
        /\ op' = "commit_config"
        /\ arg' = <<>>
        /\ err_arg' = ""
        /\ UNCHANGED <<device, os_version, merge_cfg>>
        /\ IF device # "connected"
           THEN /\ raised' = DeviceError
                /\ sent' = <<>>
                /\ ret' = <<>>
           ELSE /\ raised' = "none"
                /\ sent' = commit_config_calls(merge_cfg, set_reply, write_reply)
                /\ ret' = set_reply

\* ------------------------------------------------------- interface counters
\* 'show statistics ...' output as the regular expressions see it: the
\* whitespace-separated tokens, a token a label or a run of digits.
Label(l) == [label |-> l, num |-> -1]
Number(n) == [label |-> "", num |-> n]
IsNumber(t) == t.label = ""

\* A formatted command: the format string and its argument.
SendFmt(cmd, param, reply) ==
    [kind |-> "send_command", cmd |-> cmd, param |-> param, cfg |-> NoCfg, reply |-> reply]

\* The lines a statistics report may hold, each with the values it reports.
StatLines ==
    [ octets    |-> << Label("InOctets"), Number(11), Label("OutOctets"), Number(12) >>,
      unicast   |-> << Label("InUnicastPkts"), Number(21), Label("OutUnicastPkts"), Number(22) >>,
      multicast |-> << Label("InMulticastPkts"), Number(31), Label("OutMulticastPkts"), Number(32) >>,
      broadcast |-> << Label("InBroadcastPkts"), Number(41), Label("OutBroadcastPkts"), Number(42) >>,
      discards  |-> << Label("InDiscards"), Number(51) >>,
      outerrors |-> << Label("OutErrors"), Number(62) >>,
      inerrors  |-> << Label("InErrors"), Number(61) >> ]
StatOrder == << "octets", "broadcast", "multicast", "unicast", "discards", "outerrors", "inerrors" >>

RECURSIVE ReportFrom(_, _)
ReportFrom(present, i) ==
    IF i > Len(StatOrder) THEN <<>>
    ELSE (IF StatOrder[i] \in present THEN StatLines[StatOrder[i]] ELSE <<>>)
         \o ReportFrom(present, i + 1)
Reports == { ReportFrom(present, 1) : present \in SUBSET DOMAIN StatLines }

\* re.search(r'<a>\s+(\d+)\s+<b>\s+(\d+)', output): the position of the
\* first match, 0 for None; groups 1 and 2 are the tokens at +1 and +3.
PairAt(output, a, b, i) ==
    /\ i + 3 <= Len(output)
    /\ output[i].label = a /\ IsNumber(output[i + 1])
    /\ output[i + 2].label = b /\ IsNumber(output[i + 3])
search_pair(output, a, b) ==
    IF \E i \in 1..Len(output) : PairAt(output, a, b, i)
    THEN CHOOSE i \in 1..Len(output) :
            PairAt(output, a, b, i) /\ \A j \in 1..(i - 1) : ~PairAt(output, a, b, j)
    ELSE 0

\* re.search(r'<a>\s+(\d+)', output): group 1 is the token at +1.
OneAt(output, a, i) == i + 1 <= Len(output) /\ output[i].label = a /\ IsNumber(output[i + 1])
search_one(output, a) ==
    IF \E i \in 1..Len(output) : OneAt(output, a, i)
    THEN CHOOSE i \in 1..Len(output) :
            OneAt(output, a, i) /\ \A j \in 1..(i - 1) : ~OneAt(output, a, j)
    ELSE 0

\* counters[key] = value
Put(counters, key, value) == (key :> value) @@ counters

\* The parsing half of _get_detailed_counters: the counters dict built from
\* the output, assignment by assignment.
detailed_counters(output) ==
    LET octets == search_pair(output, "InOctets", "OutOctets")
        c1 == IF octets # 0
              THEN Put(Put(EmptyMap, "rx_octets", output[octets + 1].num),
                       "tx_octets", output[octets + 3].num)
              ELSE EmptyMap
        packets == search_pair(output, "InUnicastPkts", "OutUnicastPkts")
        c2 == IF packets # 0
              THEN Put(Put(c1, "rx_unicast_packets", output[packets + 1].num),
                       "rx_unicast_packets", output[packets + 3].num)
              ELSE c1
        multicast == search_pair(output, "InMulticastPkts", "OutMulticastPkts")
        c3 == IF multicast # 0
              THEN Put(Put(c2, "rx_multicast_packets", output[multicast + 1].num),
                       "tx_multicast_packets", output[multicast + 3].num)
              ELSE c2
        broadcast == search_pair(output, "InBroadcastPkts", "OutBroadcastPkts")
        c4 == IF broadcast # 0
              THEN Put(Put(c3, "rx_broadcast_packets", output[broadcast + 1].num),
                       "tx_broadcast_packets", output[broadcast + 3].num)
              ELSE c3
        discards == search_one(output, "InDiscards")
        c5 == IF discards # 0 THEN Put(c4, "rx_discards", output[discards + 1].num) ELSE c4
        out_errors == search_one(output, "OutErrors")
        c6 == IF out_errors # 0 THEN Put(c5, "tx_errors", output[out_errors + 1].num) ELSE c5
        in_errors == search_one(output, "InErrors")
    IN IF in_errors # 0 THEN Put(c6, "rx_errors", output[in_errors + 1].num) ELSE c6

\* Port names as the regular expressions classify them:
\* re.match('mgmt(\d+)', port), re.match('(\d+/\d+)', port),
\* re.match('(ve|lb|mgmt)\d+', port).
MgmtPorts == {"mgmt1"}
PhysicalPorts == {"1/1", "1/2"}
LogicalPorts == {"ve1", "lb1"} \cup MgmtPorts
\* re_mgmt.group(1)
MgmtNumber(port) == "1"

\* The command _get_detailed_counters builds for a port.
StatisticsCmd(port, reply) ==
    IF port \in MgmtPorts
    THEN SendFmt("show statistics management {}", MgmtNumber(port), reply)
    ELSE SendFmt("show statistics ethernet {}", port, reply)

\* _get_detailed_counters(port)
GetDetailedCounters ==
    \E port \in {"1/1", "mgmt1"} :
    \E output \in Reports :
        /\ op' = "_get_detailed_counters"
        /\ arg' = port
        /\ err_arg' = ""
        /\ UNCHANGED <<device, os_version, merge_cfg>>
        /\ IF device # "connected"
           THEN /\ raised' = DeviceError
                /\ sent' = <<>>
                /\ ret' = EmptyMap
           ELSE /\ raised' = "none"
                /\ sent' = << StatisticsCmd(port, output) >>
                /\ ret' = detailed_counters(output)

\* ------------------------------------------------------------ table parsers
\* A table is a sequence of lines, a line the sequence of its fields
\* (line.split()).

\* float(s) and int(s) on the numeric fields the tables hold
NumberOf == ("0" :> 0) @@ ("10" :> 10) @@ ("120" :> 120)
IsNumeric(s) == s \in DOMAIN NumberOf

\* napalm_base.helpers.mac on the addresses the tables hold; anything else
\* is rejected by netaddr
MacOf == ("1122.3344.5566" :> "11:22:33:44:55:66") @@ ("aabb.ccdd.eeff" :> "AA:BB:CC:DD:EE:FF")
ZeroMac == "00:00:00:00:00:00"

\* The first failure of a sequence of per-line outcomes, and the entries
\* appended before it.
RECURSIVE Collect(_, _)
Collect(outcomes, i) ==
    IF i > Len(outcomes) THEN [raised |-> "none", entries |-> <<>>]
    ELSE IF outcomes[i].raised # "none" THEN [raised |-> outcomes[i].raised, entries |-> <<>>]
    ELSE LET rest == Collect(outcomes, i + 1)
         IN [rest EXCEPT !.entries = outcomes[i].entries \o @]

Skip == [raised |-> "none", entries |-> <<>>]
Fail(exc) == [raised |-> exc, entries |-> <<>>]
Append1(e) == [raised |-> "none", entries |-> <<e>>]

\* output[n:]
Drop(output, n) == SubSeq(output, n + 1, Len(output))

\* -- get_arp_table
ArpHeader7 ==
    << << "Total", "number", "of", "ARP", "entries:", "2" >>,
       << "No.", "IP", "Address", "MAC", "Address", "Type", "Age", "Port", "Status" >> >>
ArpHeader8 ==
    << << "Total", "number", "of", "ARP", "entries:", "2" >>,
       << "Entries", "in", "default", "routing", "instance:" >>,
       << "No.", "IP", "Address", "MAC", "Address", "Type", "Age", "Port", "Status" >> >>
ArpLines ==
    { <<>>,
      << "1", "10.0.0.1", "1122.3344.5566", "Dynamic", "120", "1/1", "Valid" >>,
      << "2", "10.0.0.2", "None", "Dynamic", "0", "1/2", "Pend" >>,
      << "3", "10.0.0.3", "aabb.ccdd.eeff", "Static", "None", "1/1", "Valid" >>,
      << "4", "10.0.0.4", "1122.3344.5566", "Dynamic", "10", "1/2" >>,
      << "5", "10.0.0.5", "aabb.ccdd.eeff", "Dynamic", "10", "1/2", "Valid", "20" >> }

\* The body of get_arp_table's loop for one line.
arp_line(fields) ==
    IF Len(fields) # 7 THEN Skip
    ELSE LET address == fields[2]
             mac == fields[3]
             age == fields[5]
             interface == fields[6]
         IN IF ~IsNumeric(age) THEN Fail("ValueError")
            ELSE IF mac # "None" /\ mac \notin DOMAIN MacOf THEN Fail("AddrFormatError")
            ELSE Append1([interface |-> interface,
                          mac |-> IF mac = "None" THEN ZeroMac ELSE MacOf[mac],
                          ip |-> address,
                          age |-> NumberOf[age]])

\* get_arp_table after the command: header skip by version, then the loop.
arp_table(version, output) ==
    LET body == IF version = 7 THEN Drop(output, 2)
                ELSE IF version = 8 THEN Drop(output, 3)
                ELSE output
    IN Collect([i \in 1..Len(body) |-> arp_line(body[i])], 1)

\* The device prints the header of the version it reported at open.
ArpHeaders(version) ==
    IF version = 7 THEN {ArpHeader7}
    ELSE IF version = 8 THEN {ArpHeader8}
    ELSE {ArpHeader7, ArpHeader8}

GetArpTable ==
    \E header \in ArpHeaders(os_version) :
    \E rows \in SeqsUpTo(ArpLines, MaxRows) :
        LET output == header \o rows
            r == arp_table(os_version, output)
        IN /\ op' = "get_arp_table"
           /\ arg' = Len(header)
           /\ err_arg' = ""
           /\ UNCHANGED <<device, os_version, merge_cfg>>
           /\ IF device # "connected"
              THEN /\ raised' = DeviceError
                   /\ sent' = <<>>
                   /\ ret' = <<>>
              ELSE /\ raised' = r.raised
                   /\ sent' = << Send("show arp", output) >>
                   /\ ret' = r.entries

\* -- get_mac_address_table (the definition in force: the later one)
MacHeader ==
    << << "Total", "active", "entries", "from", "all", "ports", "=", "2" >>,
       << "MAC-Address", "Port", "Type", "VLAN" >> >>
MacLines ==
    { <<>>,
      << "1122.3344.5566", "1/1", "Dynamic", "10" >>,
      << "aabb.ccdd.eeff", "1/2", "Static", "120" >>,
      << "1122.3344.5566", "1/1", "Dynamic", "1", "10" >>,
      << "aabb.ccdd.eeff", "1/2", "Dynamic" >>,
      << "aabb.ccdd.eeff", "1/2", "Dynamic", "None" >> }

\* The body of get_mac_address_table's loop for one line.
mac_line(fields) ==
    IF Len(fields) # 4 THEN Skip
    ELSE LET mac_address == fields[1]
             port == fields[2]
             typ == fields[3]
             vlan == fields[4]
         IN IF mac_address \notin DOMAIN MacOf THEN Fail("AddrFormatError")
            ELSE IF ~IsNumeric(vlan) THEN Fail("ValueError")
            ELSE Append1([mac |-> MacOf[mac_address], interface |-> port,
                          vlan |-> NumberOf[vlan], active |-> TRUE,
                          static |-> typ # "Dynamic", moves |-> -1, last_move |-> -1])

\* get_mac_address_table after the command: lines[2:], then the loop.
mac_address_table(output) ==
    LET lines == Drop(output, 2)
    IN Collect([i \in 1..Len(lines) |-> mac_line(lines[i])], 1)

GetMacAddressTable ==
    \E rows \in SeqsUpTo(MacLines, MaxRows) :
        LET output == MacHeader \o rows
            r == mac_address_table(output)
        IN /\ op' = "get_mac_address_table"
           /\ arg' = <<>>
           /\ err_arg' = ""
           /\ UNCHANGED <<device, os_version, merge_cfg>>
           /\ IF device # "connected"
              THEN /\ raised' = DeviceError
                   /\ sent' = <<>>
                   /\ ret' = <<>>
              ELSE /\ raised' = r.raised
                   /\ sent' = << Send("show mac-address", output) >>
                   /\ ret' = r.entries

\* -- get_interfaces
\* 'show interface ...' output as the regular expressions see it:
\*   flap    the units of 'Port \S+ for (\d.*seconds)', hasflap its match
\*   name    the text after 'Port name is', "" without such a line
\*   speed   groups 1 and 2 of 'Configured speed (\S+), actual (\S+),',
\*           hasspeed its match
\* A speed token is a number and the unit letter at [-4] ("1Gbit",
\* "100Mbit"), or the word "unknown" or "auto".
Speed(n, unit) == [n |-> n, unit |-> unit]
DetailReplies ==
    { [hasflap |-> TRUE, flap |-> ("days" :> 3) @@ ("minutes" :> 36) @@ ("seconds" :> 18),
       name |-> "uplink", hasspeed |-> TRUE,
       configured |-> Speed(0, "auto"), actual |-> Speed(1, "G")],
      [hasflap |-> TRUE, flap |-> ("seconds" :> 0),
       name |-> "", hasspeed |-> TRUE,
       configured |-> Speed(100, "M"), actual |-> Speed(0, "unknown")],
      [hasflap |-> FALSE, flap |-> ("seconds" :> 0),
       name |-> "", hasspeed |-> FALSE,
       configured |-> Speed(0, "auto"), actual |-> Speed(0, "unknown")] }

\* _parse_port_change(string)
parse_port_change(flap) ==
    LET Unit(u) == IF u \in DOMAIN flap THEN flap[u] ELSE 0
        t == Unit("seconds") + Unit("minutes") * 60 + Unit("hours") * 60 * 60
             + Unit("days") * 24 * 60 * 60
    IN IF t = 0 THEN -1 ELSE t

\* _calc_speed(speed)
calc_speed(speed) == IF speed.unit = "M" THEN speed.n ELSE speed.n * 1000

\* _get_interface_details(port) after the command
interface_details(version, output) ==
    IF version = 8 /\ ~output.hasflap THEN [raised |-> "AttributeError", details |-> <<>>]
    ELSE IF ~output.hasspeed THEN [raised |-> "AttributeError", details |-> <<>>]
    ELSE LET last_flap == IF version = 8 THEN parse_port_change(output.flap) ELSE -1
             speed == IF output.actual.unit # "unknown" THEN calc_speed(output.actual)
                      ELSE IF output.configured.unit # "auto" THEN calc_speed(output.configured)
                      ELSE 1000
         IN [raised |-> "none", details |-> << last_flap, output.name, speed >>]

\* _get_logical_interface_detail(port) after the command
logical_interface_detail(output) ==
    [raised |-> "none", details |-> << -1, output.name, -1 >>]

\* The command the detail query of a port sends.
InterfaceCmd(port, reply) ==
    IF port \in MgmtPorts THEN SendFmt("show interface management {}", MgmtNumber(port), reply)
    ELSE IF port \in PhysicalPorts THEN SendFmt("show interface ethernet {}", port, reply)
    ELSE SendFmt("show interface {}", port, reply)

IfRow(port, link, state, mac, n) ==
    [i \in 1..n |-> CASE i = 1 -> port [] i = 2 -> link [] i = 3 -> state
                      [] i = 5 -> "1G" [] i = 10 -> mac [] OTHER -> "None"]
IfLines ==
    { <<>>,
      << "Port", "Link", "State", "Dupl", "Speed", "Trunk", "Tag", "Pvid", "Pri", "MAC", "Name" >>,
      IfRow("1/1", "Up", "Forward", "aabb.ccdd.eeff", 10),
      IfRow("1/2", "Disable", "None", "1122.3344.5566", 11),
      IfRow("ve1", "Down", "N/A", "N/A", 10),
      IfRow("1/2", "Down", "None", "1122.3344.5566", 3),
      IfRow("1/1", "Up", "Forward", "aabb.ccdd.eeff", 9) }

\* get_interfaces: the loop from line i on, interface_list built so far;
\* details[i] is what the device answers to the detail query of line i.
RECURSIVE interfaces_from(_, _, _, _, _)
interfaces_from(version, output, details, i, interface_list) ==
    IF i > Len(output) THEN [raised |-> "none", sent |-> <<>>, ret |-> interface_list]
    ELSE LET fields == output[i]
             next == interfaces_from(version, output, details, i + 1, interface_list)
             Raise(exc) == [raised |-> exc, sent |-> <<>>, ret |-> EmptyMap]
         IN IF Len(fields) = 0 THEN next
            ELSE IF fields[1] = "Port" THEN next
            ELSE IF Len(fields) < 3 THEN Raise("ValueError")
            ELSE IF Len(fields) < 10 THEN Raise("IndexError")
            ELSE LET port == fields[1]
                     link == fields[2]
                     state == fields[3]
                     mac == fields[10]
                 IN IF mac # "N/A" /\ mac \notin DOMAIN MacOf THEN Raise("AddrFormatError")
                    ELSE IF port \notin PhysicalPorts \cup LogicalPorts THEN next
                    ELSE LET is_enabled == IF port \in PhysicalPorts THEN link # "Disable"
                                           ELSE link # "Down"
                             is_up == IF port \in PhysicalPorts THEN state = "Forward"
                                      ELSE is_enabled
                             d == IF port \in PhysicalPorts \cup MgmtPorts
                                  THEN interface_details(version, details[i])
                                  ELSE logical_interface_detail(details[i])
                             call == InterfaceCmd(port, details[i])
                         IN IF d.raised # "none"
                            THEN [raised |-> d.raised, sent |-> <<call>>, ret |-> EmptyMap]
                            ELSE LET entry == [is_up |-> is_up, is_enabled |-> is_enabled,
                                               description |-> d.details[2],
                                               last_flapped |-> d.details[1],
                                               speed |-> d.details[3],
                                               mac_address |-> IF mac = "N/A" THEN mac
                                                               ELSE MacOf[mac]]
                                     rest == interfaces_from(version, output, details, i + 1,
                                                             Put(interface_list, port, entry))
                                 IN [rest EXCEPT !.sent = <<call>> \o @]

GetInterfaces ==
    \E output \in SeqsUpTo(IfLines, MaxRows) :
    \E details \in [1..Len(output) -> DetailReplies] :
        LET r == interfaces_from(os_version, output, details, 1, EmptyMap)
        IN /\ op' = "get_interfaces"
           /\ arg' = <<>>
           /\ err_arg' = ""
           /\ UNCHANGED <<device, os_version, merge_cfg>>
           /\ IF device # "connected"
              THEN /\ raised' = DeviceError
                   /\ sent' = <<>>
                   /\ ret' = EmptyMap
              ELSE /\ raised' = r.raised
                   /\ sent' = << Send("sh interfaces brief", output) >> \o r.sent
                   /\ ret' = r.ret

\* -- get_interfaces_counters
StatHeader ==
    << << "Port", "In", "Packets", "Out", "Packets", "In", "Errors", "Out", "Errors" >>,
       << "Port", "Link", "State" >> >>
StatFooter == << << "TOTAL", "20", "20", "0", "0" >> >>
StatRows ==
    { <<>>,
      << "1/1", "10", "10", "0", "0" >>,
      << "1/2", "10", "10" >>,
      << "mgmt1", "0", "0", "0", "0" >> }
SomeReports ==
    { ReportFrom({}, 1), ReportFrom({"unicast"}, 1), ReportFrom(DOMAIN StatLines, 1) }

\* output[2:-1]
Middle(output) == SubSeq(output, 3, Len(output) - 1)

\* The second loop of get_interfaces_counters from port i on.
RECURSIVE counters_from(_, _, _, _)
counters_from(ports, reports, i, counters) ==
    IF i > Len(ports) THEN [raised |-> "none", sent |-> <<>>, ret |-> counters]
    ELSE LET rest == counters_from(ports, reports, i + 1,
                                   Put(counters, ports[i], detailed_counters(reports[i])))
         IN [rest EXCEPT !.sent = << StatisticsCmd(ports[i], reports[i]) >> \o @]

\* get_interfaces_counters after the first command: the first loop takes
\* fields[0] of every line, the second queries every port.
interfaces_counters(output, reports) ==
    LET lines == Middle(output)
    IN IF \E i \in 1..Len(lines) : Len(lines[i]) = 0
       THEN [raised |-> "IndexError", sent |-> <<>>, ret |-> EmptyMap]
       ELSE counters_from([i \in 1..Len(lines) |-> lines[i][1]], reports, 1, EmptyMap)

GetInterfacesCounters ==
    \E rows \in SeqsUpTo(StatRows, MaxRows) :
    \E reports \in [1..Len(rows) -> SomeReports] :
        LET output == StatHeader \o rows \o StatFooter
            r == interfaces_counters(output, reports)
        IN /\ op' = "get_interfaces_counters"
           /\ arg' = <<>>
           /\ err_arg' = ""
           /\ UNCHANGED <<device, os_version, merge_cfg>>
           /\ IF device # "connected"
              THEN /\ raised' = DeviceError
                   /\ sent' = <<>>
                   /\ ret' = EmptyMap
              ELSE /\ raised' = r.raised
                   /\ sent' = << Send("show statistics", output) >> \o r.sent
                   /\ ret' = r.ret

\* --------------------------------------------------------- get_interfaces_ip
\* A running-config line is its leading whitespace count and its words.
CfgLine(indent, words) == [indent |-> indent, words |-> words]
ConfigLines ==
    { CfgLine(0, << "interface", "ethernet", "1/1" >>),
      CfgLine(0, << "interface", "ve", "10" >>),
      CfgLine(1, << "ip", "address", "10.0.0.1", "255.255.255.0" >>),
      CfgLine(1, << "ipv6", "address", "2001:db8::1/64" >>),
      CfgLine(1, << "ip", "address", "10.0.0.2/24", "dynamic" >>),
      CfgLine(1, << "no", "shutdown" >>),
      CfgLine(0, << "!" >>) }

\* re.match('interface\s(\S+)\s(\S+)', line)
IsInterfaceLine(line) ==
    line.indent = 0 /\ Len(line.words) >= 3 /\ line.words[1] = "interface"

\* re.search('^\s(ip|ipv6) address (.*)', line)
IsAddressLine(line) ==
    /\ line.indent = 1 /\ Len(line.words) >= 3
    /\ line.words[1] \in {"ip", "ipv6"} /\ line.words[2] = "address"

\* "{}{}".format(type, id) after the four replace calls, as the pair of
\* the rewritten type and the id
PortPrefix == ("ethernet" :> "") @@ ("loopback" :> "lb") @@ ("management" :> "mgmt") @@ ("ve" :> "v")
PortName(line) ==
    << IF line.words[2] \in DOMAIN PortPrefix THEN PortPrefix[line.words[2]] ELSE line.words[2],
       line.words[3] >>

\* IPNetwork(ip) of group 2 with ' dynamic' removed and ' ' turned into '/'
NotDynamic(w) == w # "dynamic"
IPNetworkOf ==
    (<< "10.0.0.1", "255.255.255.0" >> :> [version |-> 4, ip |-> "10.0.0.1", prefixlen |-> 24])
    @@ (<< "10.0.0.2/24" >> :> [version |-> 4, ip |-> "10.0.0.2", prefixlen |-> 24])
    @@ (<< "2001:db8::1/64" >> :> [version |-> 6, ip |-> "2001:db8::1", prefixlen |-> 64])
AddressOf(line) == SelectSeq(SubSeq(line.words, 3, Len(line.words)), NotDynamic)

NoPort == [bound |-> FALSE, name |-> << "", "" >>]

\* get_interfaces_ip: the loop from line i on; port is the local variable
\* `port` (unbound until the first interface line), interfaces the nested
\* dict flattened to <<port, family, address>> -> prefix_length.
RECURSIVE interfaces_ip_from(_, _, _, _)
interfaces_ip_from(config, i, port, interfaces) ==
    IF i > Len(config) THEN [raised |-> "none", ret |-> interfaces]
    ELSE LET line == config[i]
         IN IF IsInterfaceLine(line)
            THEN interfaces_ip_from(config, i + 1,
                                    [bound |-> TRUE, name |-> PortName(line)], interfaces)
            ELSE IF ~IsAddressLine(line)
            THEN interfaces_ip_from(config, i + 1, port, interfaces)
            ELSE IF AddressOf(line) \notin DOMAIN IPNetworkOf
            THEN [raised |-> "AddrFormatError", ret |-> EmptyMap]
            ELSE IF ~port.bound
            THEN [raised |-> "UnboundLocalError", ret |-> EmptyMap]
            ELSE LET ip == IPNetworkOf[AddressOf(line)]
                     ver == IF ip.version = 4 THEN "ipv4" ELSE "ipv6"
                 IN interfaces_ip_from(config, i + 1, port,
                                       Put(interfaces, << port.name, ver, ip.ip >>, ip.prefixlen))

\* get_interfaces_ip(), through get_config(retrieve='running')
GetInterfacesIp ==
    \E config \in SeqsUpTo(ConfigLines, MaxCfgLines) :
        LET r == interfaces_ip_from(config, 1, NoPort, EmptyMap)
        IN /\ op' = "get_interfaces_ip"
           /\ arg' = <<>>
           /\ err_arg' = ""
           /\ UNCHANGED <<device, os_version, merge_cfg>>
           /\ IF device # "connected"
              THEN /\ raised' = DeviceError
                   /\ sent' = <<>>
                   /\ ret' = EmptyMap
              ELSE /\ raised' = r.raised
                   /\ sent' = << Send("show running-config", config) >>
                   /\ ret' = r.ret

Init ==
    /\ device = "None"
    /\ os_version = NoVersion
    /\ merge_cfg = NoCfg
    /\ op = "__init__"
    /\ arg = <<>>
    /\ sent = <<>>
    /\ raised = "none"
    /\ err_arg = ""
    /\ ret = <<>>

\* _send_command called with a list of command variants
SendCommandList ==
    \E command \in SeqsUpTo(Commands, MaxVariants) :
    \E replies \in [1..Len(command) -> Outputs] :
        /\ op' = "_send_command"
        /\ arg' = command
        /\ err_arg' = ""
        /\ IF device # "connected" /\ command # <<>>
           THEN /\ raised' = DeviceError
                /\ sent' = <<>>
                /\ ret' = <<>>
           ELSE LET r == send_command_list(command, replies)
                IN /\ raised' = r.raised
                   /\ sent' = r.sent
                   /\ ret' = r.output
        /\ UNCHANGED <<device, os_version, merge_cfg>>

Next == Open \/ Close \/ Cli \/ SendCommandList

Spec == Init /\ [][Next]_vars

\* The session with the candidate configuration.
NextConfig == Open \/ Close \/ LoadMergeCandidate \/ CommitConfig

SpecConfig == Init /\ [][NextConfig]_vars
\* The session with the counter queries.
NextCounters == Open \/ Close \/ GetDetailedCounters \/ GetInterfacesCounters

SpecCounters == Init /\ [][NextCounters]_vars

\* The session with the table queries.
NextTables ==
    Open \/ Close \/ GetArpTable \/ GetInterfaces \/ GetInterfacesCounters \/ GetMacAddressTable

SpecTables == Init /\ [][NextTables]_vars

\* The session with the interface address query.
NextIp == Open \/ Close \/ GetInterfacesIp

SpecIp == Init /\ [][NextIp]_vars

\* ================================================================== claims
\* ------------------------------------------------------------------------
\* C1: close() returns without raising in every session state (never
\* opened, open, already closed).
C1_CloseNeverRaises == op = "close" => raised = "none"

\* ------------------------------------------------------------------------
\* C2: cli(commands) on an open session sends the commands in order; if an
\* output contains "Invalid input" the call raises, naming the command that
\* produced it, and returns no mapping; otherwise it returns a mapping whose
\* keys are the commands of the list, each with the output of that command.
C2_CliStrict ==
    (op = "cli" /\ arg.isList /\ device = "connected") =>
        LET commands == arg.commands
            bad == { i \in 1..Len(sent) : HasInvalidInput(sent[i].reply) }
        IN /\ Len(sent) <= Len(commands)
           /\ \A i \in 1..Len(sent) :
                sent[i].kind = "send_command" /\ sent[i].cmd = commands[i]
           /\ IF bad # {}
              THEN /\ raised = "ValueError"
                   /\ \E i \in bad : err_arg = commands[i]
                   /\ ret = EmptyMap
              ELSE /\ raised = "none"
                   /\ Len(sent) = Len(commands)
                   /\ DOMAIN ret = { commands[i] : i \in 1..Len(commands) }
                   /\ \A c \in DOMAIN ret :
                        \E i \in 1..Len(sent) :
                            /\ sent[i].cmd = c
                            /\ ret[c] = sent[i].reply
                            /\ \A j \in (i + 1)..Len(sent) : sent[j].cmd # c

\* cli was given two commands and the second one was rejected.
C2_Witness ==
    /\ op = "cli" /\ arg.isList /\ device = "connected"
    /\ Len(arg.commands) = 2 /\ Len(sent) = 2
    /\ ~HasInvalidInput(sent[1].reply) /\ HasInvalidInput(sent[2].reply)
    /\ raised = "ValueError" /\ err_arg = arg.commands[2]

\* ------------------------------------------------------------------------
\* C3: _send_command given a non-empty list of variants on an open session
\* sends them in list order, stops at the first response without "Invalid
\* input" and returns it, sending no later variant; if every response has
\* the marker it returns the response to the last variant.
C3_DispatchFirstAccepted ==
    (op = "_send_command" /\ device = "connected" /\ arg # <<>>) =>
        /\ raised = "none"
        /\ Len(sent) \in 1..Len(arg)
        /\ \A i \in 1..Len(sent) : sent[i].kind = "send_command" /\ sent[i].cmd = arg[i]
        /\ \A i \in 1..(Len(sent) - 1) : HasInvalidInput(sent[i].reply)
        /\ ~HasInvalidInput(sent[Len(sent)].reply) \/ Len(sent) = Len(arg)
        /\ ret = sent[Len(sent)].reply

\* Two variants were given and the first response was accepted.
C3_Witness ==
    /\ op = "_send_command" /\ device = "connected"
    /\ Len(arg) = 2 /\ Len(sent) = 1
    /\ ~HasInvalidInput(sent[1].reply) /\ ret = sent[1].reply

\* ------------------------------------------------------------------------
\* C4: load_merge_candidate with both a filename and a config raises
\* ValueError, makes no call on the session and leaves _merge_cfg as it was.
C4_BothInputsRejected ==
    [][ (op' = "load_merge_candidate" /\ arg'.filename /\ arg'.config) =>
            (raised' = "ValueError" /\ sent' = <<>> /\ merge_cfg' = merge_cfg) ]_vars

\* Both inputs were given while a candidate was staged on an open session.
C4_Witness ==
    /\ op = "load_merge_candidate" /\ arg.filename /\ arg.config
    /\ raised = "ValueError"
    /\ device = "connected"
    /\ ~merge_cfg.isNone /\ Len(merge_cfg.lines) = 2

\* ------------------------------------------------------------------------
\* C5: commit_config on an open session with no candidate staged raises a
\* configuration error before any call on the session.
C5_CommitWithoutCandidateFails ==
    (op = "commit_config" /\ device = "connected" /\ os_version \in {7, 8} /\ merge_cfg.isNone) =>
        (raised = "ValueError" /\ sent = <<>>)

\* ------------------------------------------------------------------------
\* C6: the staged candidate is exactly the non-empty, whitespace-stripped
\* lines of its source, in order; commit_config on an open session pushes
\* exactly that list in one send_config_set call and then sends 'write
\* memory'; 'write memory' is never sent except right after the push.
IsStripOf(t, s) ==
    \E i \in 0..Len(s) : \E j \in 0..(Len(s) - i) :
        /\ t = SubSeq(s, i + 1, Len(s) - j)
        /\ \A k \in 1..i : s[k] \in Whitespace
        /\ \A k \in (Len(s) - j + 1)..Len(s) : s[k] \in Whitespace
        /\ t = <<>> \/ (t[1] \notin Whitespace /\ t[Len(t)] \notin Whitespace)

IsStagingOf(lines, source) ==
    LET kept == { i \in 1..Len(source) : \E k \in 1..Len(source[i]) : source[i][k] \notin Whitespace }
    IN /\ Len(lines) = Cardinality(kept)
       /\ \E f \in [1..Len(lines) -> kept] :
            /\ \A a, b \in 1..Len(lines) : a < b => f[a] < f[b]
            /\ \A a \in 1..Len(lines) : lines[a] # <<>> /\ IsStripOf(lines[a], source[f[a]])

C6_CommitPushesThenPersists ==
    /\ (op = "load_merge_candidate" /\ raised = "none" /\ (arg.filename \/ arg.config)) =>
            (~merge_cfg.isNone /\ IsStagingOf(merge_cfg.lines, arg.source))
    /\ (op = "commit_config" /\ device = "connected" /\ ~merge_cfg.isNone) =>
            /\ raised = "none"
            /\ Len(sent) = 2
            /\ sent[1].kind = "send_config_set" /\ sent[1].cfg = merge_cfg
            /\ sent[2].kind = "send_command" /\ sent[2].cmd = WriteMemory
            /\ ret = sent[1].reply
    /\ \A i \in 1..Len(sent) :
            sent[i].cmd = WriteMemory => (i > 1 /\ sent[i - 1].kind = "send_config_set")

\* A two-line candidate was committed on an open session.
C6_Witness ==
    /\ op = "commit_config" /\ device = "connected"
    /\ ~merge_cfg.isNone /\ Len(merge_cfg.lines) = 2
    /\ Len(sent) = 2 /\ sent[2].cmd = WriteMemory

\* ------------------------------------------------------------------------
\* C7: when open() has succeeded the cached version is 7 or 8.
C7_OpenedVersionIs7Or8 ==
    (op = "open" /\ raised = "none") => os_version \in {7, 8}
\* ------------------------------------------------------------------------
\* C8: the counters mapping of a port holds every counter the statistics
\* output reports, under its own rx_/tx_ key with the value reported for
\* that direction, and holds no key for a counter the output lacks.
PairKeys ==
    { << "InOctets", "OutOctets", "rx_octets", "tx_octets" >>,
      << "InUnicastPkts", "OutUnicastPkts", "rx_unicast_packets", "tx_unicast_packets" >>,
      << "InMulticastPkts", "OutMulticastPkts", "rx_multicast_packets", "tx_multicast_packets" >>,
      << "InBroadcastPkts", "OutBroadcastPkts", "rx_broadcast_packets", "tx_broadcast_packets" >> }
OneKeys ==
    { << "InDiscards", "rx_discards" >>, << "InErrors", "rx_errors" >>,
      << "OutErrors", "tx_errors" >> }

\* The value the output reports after label l, as a set: empty when absent.
Reported(output, l) ==
    { output[i + 1].num : i \in { k \in 1..(Len(output) - 1) : output[k].label = l } }

C8_CountersUnderOwnKeys ==
    (op = "_get_detailed_counters" /\ device = "connected" /\ os_version \in {7, 8}) =>
        LET output == sent[1].reply
            Holds(key, l) ==
                IF Reported(output, l) = {}
                THEN key \notin DOMAIN ret
                ELSE key \in DOMAIN ret /\ ret[key] \in Reported(output, l)
        IN /\ \A p \in PairKeys : Holds(p[3], p[1]) /\ Holds(p[4], p[2])
           /\ \A o \in OneKeys : Holds(o[2], o[1])
\* ------------------------------------------------------------------------
\* C9: get_interfaces_ip does not raise on an address line that precedes
\* every interface line and adds nothing for it; every other address line
\* is attributed to the port of the nearest interface line before it, and
\* to no other port.
HeadersBefore(config, i) == { h \in 1..(i - 1) : IsInterfaceLine(config[h]) }
LastHeaderBefore(config, i) ==
    CHOOSE h \in HeadersBefore(config, i) : \A g \in HeadersBefore(config, i) : g <= h

C9_AddressGoesToLastHeader ==
    (op = "get_interfaces_ip" /\ device = "connected" /\ os_version \in {7, 8}) =>
        LET config == sent[1].reply
            attributed == { i \in 1..Len(config) :
                              IsAddressLine(config[i]) /\ HeadersBefore(config, i) # {} }
            KeyOf(i) ==
                LET ip == IPNetworkOf[AddressOf(config[i])]
                IN << PortName(config[LastHeaderBefore(config, i)]),
                      IF ip.version = 4 THEN "ipv4" ELSE "ipv6", ip.ip >>
        IN /\ raised = "none"
           /\ DOMAIN ret = { KeyOf(i) : i \in attributed }

\* ------------------------------------------------------------------------
\* C10: in get_arp_table, get_interfaces, get_interfaces_counters and
\* get_mac_address_table a row with the wrong field count never raises: when
\* every row with the right field count parses, the call returns, and it
\* returns the rows with the right field count.
ArpFields == 7
MacFields == 4
IfFields == 10

RowsOf(n) == { i \in 1..Len(sent[1].reply) : i > n }

C10_WrongFieldCountSkipped ==
    /\ (op = "get_arp_table" /\ device = "connected" /\ os_version \in {7, 8}) =>
            LET output == sent[1].reply
                good == { i \in RowsOf(arg) : Len(output[i]) = ArpFields }
            IN (\A i \in good : IsNumeric(output[i][5])) =>
                    (raised = "none" /\ Len(ret) = Cardinality(good))
    /\ (op = "get_mac_address_table" /\ device = "connected" /\ os_version \in {7, 8}) =>
            LET output == sent[1].reply
                good == { i \in RowsOf(2) : Len(output[i]) = MacFields }
            IN (\A i \in good : IsNumeric(output[i][4])) =>
                    (raised = "none" /\ Len(ret) = Cardinality(good))
    /\ (op = "get_interfaces" /\ device = "connected" /\ os_version \in {7, 8}) =>
            LET output == sent[1].reply
                good == { i \in RowsOf(0) : Len(output[i]) >= IfFields /\ output[i][1] # "Port" }
            IN (\A k \in 2..Len(sent) : sent[k].reply.hasflap /\ sent[k].reply.hasspeed) =>
                    (raised = "none" /\ DOMAIN ret = { output[i][1] : i \in good })
    /\ (op = "get_interfaces_counters" /\ device = "connected" /\ os_version \in {7, 8}) =>
            LET output == sent[1].reply
                good == { i \in 3..(Len(output) - 1) : Len(output[i]) > 0 }
            IN raised = "none" /\ DOMAIN ret = { output[i][1] : i \in good }
====
